---- MODULE Spec2Model ----
(***************************************************************************)
(* The leaderboard scraper template as a state machine: the tables of the  *)
(* store (lib/db.ts), and one action per script run (prepare, scrape,      *)
(* import, pre-build) or exported store operation.                         *)
(*                                                                         *)
(* Time is counted in ticks; TicksPerDay ticks make one calendar day, so   *)
(* that toISOString().split("T")[0] is Day(t) and is not the identity.     *)
(* The activity table is held in two parts that together are its rows:     *)
(*   activity  the rows whose slug a later run may ingest again,           *)
(*   scraped   per contributor, the rows the scrape stage added under      *)
(*             fresh time-stamped slugs (count and earliest occured_at,    *)
(*             which is all COUNT and MIN read of them).                   *)
(***************************************************************************)
EXTENDS Integers, Sequences, FiniteSets, TLC

\* ---------------------------------------------------------------- bounds
MaxSlug == 1
MaxTime == 2
TicksPerDay == 2
MaxMetricSlug == 3
MaxScraped == 1
MaxHandles == 3

\* ------------------------------------------------------ program constants
ChunkSize == 1000

EXAMPLE_ACTIVITY == "example_activity"
ENGAGEMENT_CHAMPION == "engagement_champion"
EXAMPLE_AVG_METRIC == "example_avg_metric"
\* the SQL NULL in a value column, in the shape of the stored JSON values
NULL == [type |-> "null", value |-> 0]

thresholds ==
  << [variant |-> "bronze",   required |-> 10],
     [variant |-> "silver",   required |-> 50],
     [variant |-> "gold",     required |-> 100],
     [variant |-> "platinum", required |-> 500],
     [variant |-> "diamond",  required |-> 1000] >>

\* ------------------------------------------------------------ input sets
ContributorOrder == <<"a", "b">>
Contributors == {ContributorOrder[i] : i \in 1..Len(ContributorOrder)}
Slugs == 1..MaxSlug
MetricSlugs == 1..MaxMetricSlug
Times == 0..MaxTime
\* sizes of the result of getActivities in a scrape run
ScrapeSizes == {9, 50, 100, 500, 1000}
\* meta->>'example_metric' of an activity: absent (or JSON null), the text
\* "NaN" (a numeric the cast accepts), a text the cast rejects, or the text
\* of a number
Absent == "absent"
NaNText == "NaN"
Malformed == "abc"
NumericText == [t \in {"-3", "2", "3"} |->
                  IF t = "-3" THEN -3 ELSE IF t = "2" THEN 2 ELSE 3]
Metrics == {Absent, NaNText, Malformed} \cup DOMAIN NumericText

VARIABLES
  now,                    \* the clock, in ticks (new Date())
  contributor,            \* table contributor: username -> avatar_url
  activity_definition,    \* table activity_definition: slug -> row
  activity,               \* table activity, re-ingestable rows: slug -> row
  scraped,                \* table activity, fresh-slug rows: contributor -> [count, first_at]
  global_aggregate,       \* table global_aggregate: slug -> row
  contributor_aggregate_definition, \* table: set of slugs
  contributor_aggregate,  \* table contributor_aggregate: <<aggregate, contributor>> -> value
  badge_definition,       \* table badge_definition: slug -> row
  contributor_badge,      \* table contributor_badge: slug -> row
  script,                 \* the script (or operation) that ran last
  repeated,               \* whether it was a pre-build pass right after another
  outcome,                \* "ok" or "error": how that run ended
  issued,                 \* the tables that run sent an INSERT to
  contributorAggregates,  \* pre-build: the local batch of contributor aggregates
  globalAggregates,       \* pre-build: the batch handed to upsertGlobalAggregates
  badgesToAward,          \* pre-build: the local batch badgesToAward
  affectedRows,           \* rows affected by the upsert of awards, or by the operation called
  dbInstance,             \* lib/db.ts dbInstance: NoHandle (null) or a handle
  handles,                \* the PGlite instances created so far: their data paths
  returned,               \* what the last getDb call returned (NoHandle: it threw)
  effects,                \* what the last run did outside its own memory
  tree,                   \* the data tree under LEADERBOARD_DATA_PATH
  exported,               \* the activity and award tables as the last export saw them
  args                    \* the collection handed to the store operation called last

tables == <<contributor, activity_definition, activity, scraped, global_aggregate,
            contributor_aggregate_definition, contributor_aggregate,
            badge_definition, contributor_badge>>
run == <<script, repeated, outcome, issued, contributorAggregates, globalAggregates,
         badgesToAward, affectedRows>>
process == <<dbInstance, handles, returned, effects, tree, exported, args>>
vars == <<now, tables, run, process>>

\* ---------------------------------------------------------------- helpers
Min(a, b) == IF a <= b THEN a ELSE b
SetMin(S) == CHOOSE x \in S : \A y \in S : x <= y
Range(seq) == {seq[i] : i \in 1..Len(seq)}
EmptyTable == << >>

\* Date.toISOString().split("T")[0]: the calendar day of a timestamp
Day(t) == t \div TicksPerDay
\* new Date("YYYY-MM-DD"): midnight of that day
DateOfDay(d) == d * TicksPerDay

\* The date strings of the JSON files: toISOString() of an instant, or a
\* calendar day "YYYY-MM-DD"; new Date(string) gives the instant back, for a
\* calendar day its midnight.
toISOString(t) == [iso |-> t]
DayString(d) == [day |-> d]
\* a text that is no date: new Date(text) is the Invalid Date, whose time
\* value is NaN (no instant of the model is negative)
Unparsable == [text |-> "not a date"]
InvalidDate == -1
NewDate(string) ==
  IF "iso" \in DOMAIN string THEN string.iso
  ELSE IF "day" \in DOMAIN string THEN DateOfDay(string.day)
  ELSE InvalidDate

RECURSIVE batchArray(_, _)
batchArray(array, batchSize) ==
  IF Len(array) = 0 THEN << >>
  ELSE <<SubSeq(array, 1, Min(batchSize, Len(array)))>>
         \o batchArray(SubSeq(array, batchSize + 1, Len(array)), batchSize)

\* A chunked upsert issues one statement per chunk, in sequence; a failing
\* statement ends the call with the earlier chunks persisted. A statement
\* gives [table, affected, error].
NoStatement(table) == [table |-> table, affected |-> 0, error |-> FALSE]

AfterStatement(acc, r) ==
  [table |-> r.table, affected |-> acc.affected + r.affected, error |-> r.error]

\* [...new Set(contributors)]: first occurrences, in order
Dedup(seq) ==
  LET indexed == [i \in 1..Len(seq) |-> [index |-> i, value |-> seq[i]]]
      IsFirst(e) == \A j \in 1..(e.index - 1) : seq[j] # e.value
      firsts == SelectSeq(indexed, IsFirst)
  IN [k \in 1..Len(firsts) |-> firsts[k].value]

\* INSERT INTO contributor (username, avatar_url) ... ON CONFLICT (username)
\* DO NOTHING
avatar_url(c) == "https://gravatar.com/avatar/" \o c

\* variant: an INSERT without its ON CONFLICT clause
InsertContributorsNoConflictClause(table, chunk) ==
  IF Range(chunk) \cap DOMAIN table # {}
  THEN [table |-> table, affected |-> 0, error |-> TRUE]
  ELSE [table |-> [c \in DOMAIN table \cup Range(chunk) |->
                     IF c \in DOMAIN table THEN table[c] ELSE avatar_url(c)],
        affected |-> Cardinality(Range(chunk)), error |-> FALSE]

InsertContributors(table, chunk) ==
  [table |-> [c \in DOMAIN table \cup Range(chunk) |->
                IF c \in DOMAIN table THEN table[c] ELSE avatar_url(c)],
   affected |-> Cardinality(Range(chunk) \ DOMAIN table),
   error |-> FALSE]

addContributors(table, contributors) ==
  LET chunks == batchArray(Dedup(contributors), ChunkSize)
      f[i \in 0..Len(chunks)] ==
        IF i = 0 THEN NoStatement(table)
        ELSE IF f[i - 1].error THEN f[i - 1]
        ELSE AfterStatement(f[i - 1], InsertContributors(f[i - 1].table, chunks[i]))
  IN f[Len(chunks)]

\* INSERT INTO activity ... ON CONFLICT (slug) DO UPDATE SET contributor,
\* activity_definition, title, occured_at, link. The statement fails when a
\* row names a contributor or a definition that is not stored, or when two
\* of its rows carry the same slug. Its parameters are built first:
\* a.occured_at.toISOString() throws a RangeError on the Invalid Date, and the
\* statement is not issued.
ActivityRow(a) ==
  [contributor |-> a.contributor, activity_definition |-> a.activity_definition,
   title |-> a.title, occured_at |-> a.occured_at, link |-> a.link,
   text |-> a.text, points |-> a.points, meta |-> a.meta]

InsertActivities(table, chunk, contributors, definitions) ==
  LET bad == \/ \E i \in 1..Len(chunk) :
                  \/ chunk[i].occured_at = InvalidDate
                  \/ chunk[i].contributor \notin contributors
                  \/ chunk[i].activity_definition \notin definitions
             \/ \E i, j \in 1..Len(chunk) : i < j /\ chunk[i].slug = chunk[j].slug
      keys == {chunk[i].slug : i \in 1..Len(chunk)}
      rowOf(s) == LET a == CHOOSE a \in Range(chunk) : a.slug = s
                  IN IF s \in DOMAIN table
                     THEN [table[s] EXCEPT !.contributor = a.contributor,
                                           !.activity_definition = a.activity_definition,
                                           !.title = a.title,
                                           !.occured_at = a.occured_at,
                                           !.link = a.link]
                     ELSE ActivityRow(a)
  IN IF bad THEN [table |-> table, affected |-> 0, error |-> TRUE]
     ELSE [table |-> [s \in DOMAIN table \cup keys |->
                        IF s \in keys THEN rowOf(s) ELSE table[s]],
           affected |-> Len(chunk), error |-> FALSE]

\* variant: the loop goes on after a failed statement and reports the failure
\* at its end
addActivitiesKeepGoing(table, activities, contributors, definitions) ==
  LET chunks == batchArray(activities, ChunkSize)
      f[i \in 0..Len(chunks)] ==
        IF i = 0 THEN NoStatement(table)
        ELSE LET r == InsertActivities(f[i - 1].table, chunks[i], contributors, definitions)
             IN [table |-> r.table, affected |-> f[i - 1].affected + r.affected,
                 error |-> f[i - 1].error \/ r.error]
  IN f[Len(chunks)]

addActivities(table, activities, contributors, definitions) ==
  LET chunks == batchArray(activities, ChunkSize)
      f[i \in 0..Len(chunks)] ==
        IF i = 0 THEN NoStatement(table)
        ELSE IF f[i - 1].error THEN f[i - 1]
        ELSE AfterStatement(f[i - 1], InsertActivities(f[i - 1].table, chunks[i],
                                               contributors, definitions))
  IN f[Len(chunks)]

\* INSERT INTO global_aggregate ... ON CONFLICT (slug) DO UPDATE SET name,
\* description, value
InsertGlobalAggregates(table, chunk) ==
  LET keys == {chunk[i].slug : i \in 1..Len(chunk)}
      rowOf(s) == LET a == CHOOSE a \in Range(chunk) : a.slug = s
                  IN [name |-> a.name, description |-> a.description,
                      value |-> a.value]
  IN IF \E i, j \in 1..Len(chunk) : i < j /\ chunk[i].slug = chunk[j].slug
     THEN [table |-> table, affected |-> 0, error |-> TRUE]
     ELSE [table |-> [s \in DOMAIN table \cup keys |->
                        IF s \in keys THEN rowOf(s) ELSE table[s]],
           affected |-> Len(chunk), error |-> FALSE]

upsertGlobalAggregates(table, aggregates) ==
  LET chunks == batchArray(aggregates, ChunkSize)
      f[i \in 0..Len(chunks)] ==
        IF i = 0 THEN NoStatement(table)
        ELSE IF f[i - 1].error THEN f[i - 1]
        ELSE AfterStatement(f[i - 1], InsertGlobalAggregates(f[i - 1].table, chunks[i]))
  IN f[Len(chunks)]

\* INSERT INTO contributor_aggregate ... ON CONFLICT (aggregate, contributor)
\* DO UPDATE SET value
AggregateKey(a) == <<a.aggregate, a.contributor>>

InsertContributorAggregates(table, chunk) ==
  LET keys == {AggregateKey(chunk[i]) : i \in 1..Len(chunk)}
      valueOf(k) == (CHOOSE a \in Range(chunk) : AggregateKey(a) = k).value
  IN IF \E i, j \in 1..Len(chunk) :
          i < j /\ AggregateKey(chunk[i]) = AggregateKey(chunk[j])
     THEN [table |-> table, affected |-> 0, error |-> TRUE]
     ELSE [table |-> [k \in DOMAIN table \cup keys |->
                        IF k \in keys THEN valueOf(k) ELSE table[k]],
           affected |-> Len(chunk), error |-> FALSE]

upsertContributorAggregates(table, aggregates) ==
  LET chunks == batchArray(aggregates, ChunkSize)
      f[i \in 0..Len(chunks)] ==
        IF i = 0 THEN NoStatement(table)
        ELSE IF f[i - 1].error THEN f[i - 1]
        ELSE AfterStatement(f[i - 1], InsertContributorAggregates(f[i - 1].table, chunks[i]))
  IN f[Len(chunks)]

\* INSERT INTO contributor_badge ... ON CONFLICT (slug) DO NOTHING: a row
\* whose slug is stored, or was inserted by an earlier row of the statement,
\* is skipped. achieved_on is stored as toISOString().split("T")[0]. The
\* statement fails when an inserted row names a badge or a contributor that
\* is not stored (the foreign keys of ContributorBadge). Its parameters are
\* built first: b.achieved_on.toISOString() throws a RangeError on the
\* Invalid Date, and the statement is not issued.
BadgeRow(b) ==
  [badge |-> b.badge, contributor |-> b.contributor, variant |-> b.variant,
   achieved_on |-> Day(b.achieved_on), meta |-> b.meta]

\* variant: ON CONFLICT (slug) DO UPDATE SET achieved_on, meta
OnConflictBadgeUpdate(stored, b) == [row |-> BadgeRow(b), affected |-> 1]

\* ON CONFLICT (slug) DO NOTHING: the stored row stays, no row is affected
OnConflictBadge(stored, b) == [row |-> stored, affected |-> 0]

InsertContributorBadges(table, chunk, contributors, definitions) ==
  LET keys == {chunk[i].slug : i \in 1..Len(chunk)}
      rowOf(s) == chunk[SetMin({i \in 1..Len(chunk) : chunk[i].slug = s})]
      inserted == keys \ DOMAIN table
      conflict(s) == OnConflictBadge(table[s], rowOf(s))
      result == [s \in DOMAIN table \cup keys |->
                   IF s \in inserted THEN BadgeRow(rowOf(s))
                   ELSE IF s \in keys THEN conflict(s).row
                   ELSE table[s]]
      affected == Cardinality(inserted)
                  + Cardinality({s \in keys \cap DOMAIN table : conflict(s).affected > 0})
  IN IF \/ \E i \in 1..Len(chunk) : chunk[i].achieved_on = InvalidDate
        \/ \E s \in inserted : \/ result[s].contributor \notin contributors
                               \/ result[s].badge \notin definitions
     THEN [table |-> table, affected |-> 0, error |-> TRUE]
     ELSE [table |-> result, affected |-> affected, error |-> FALSE]

upsertContributorBadges(table, badges, contributors, definitions) ==
  LET chunks == batchArray(badges, ChunkSize)
      f[i \in 0..Len(chunks)] ==
        IF i = 0 THEN NoStatement(table)
        ELSE IF f[i - 1].error THEN f[i - 1]
        ELSE AfterStatement(f[i - 1], InsertContributorBadges(f[i - 1].table, chunks[i],
                                                     contributors, definitions))
  IN f[Len(chunks)]

\* SELECT contributor, COUNT(*), MIN(occured_at) FROM activity GROUP BY contributor
RowsOf(c) == {s \in DOMAIN activity : activity[s].contributor = c}

CountOf(c) == Cardinality(RowsOf(c)) + scraped[c].count

FirstActivityAt(c) ==
  SetMin({activity[s].occured_at : s \in RowsOf(c)}
         \cup (IF scraped[c].count > 0 THEN {scraped[c].first_at} ELSE {}))

getActivityCounts ==
  [c \in {c \in Contributors : CountOf(c) > 0} |->
     [count |-> CountOf(c), first_activity_at |-> FirstActivityAt(c)]]

\* ------------------------------------------------------------- pre-build
\* SELECT contributor, (meta->>'example_metric')::numeric FROM activity
\* WHERE activity_definition = 'example_activity'
\*   AND meta->>'example_metric' IS NOT NULL
\* The rows the scrape stage added carry no example_metric.
MatchingRows ==
  {s \in DOMAIN activity : /\ activity[s].activity_definition = EXAMPLE_ACTIVITY
                           /\ activity[s].meta # Absent}

\* the cast to numeric raises on a text that is no numeric
CastFails == \E s \in MatchingRows : activity[s].meta = Malformed

\* Number(row.example_metric) and the isNaN test
NaN == [nan |-> TRUE, value |-> 0]
Number(text) ==
  IF text \in DOMAIN NumericText THEN [nan |-> FALSE, value |-> NumericText[text]]
  ELSE NaN
isNaN(x) == x.nan

NumericRows == {s \in MatchingRows : ~isNaN(Number(activity[s].meta))}

\* contributorMetrics.get(c), as the rows its values come from
MetricsOf(c) == {s \in NumericRows : activity[s].contributor = c}

\* metrics.reduce((sum, m) => sum + m, 0)
RECURSIVE SumOf(_)
SumOf(rows) ==
  IF rows = {} THEN 0
  ELSE LET s == CHOOSE s \in rows : TRUE
       IN Number(activity[s].meta).value + SumOf(rows \ {s})

\* variant: the mean is truncated to an integer
MathTrunc(sum, length) ==
  IF sum >= 0 THEN sum \div length ELSE -((-sum) \div length)

\* Math.round(sum / length): the nearest integer, a tie going up
MathRound(sum, length) == (2 * sum + length) \div (2 * length)

Average(rows) == MathRound(SumOf(rows), Cardinality(rows))

ContributorAggregatesBatch ==
  LET f[i \in 0..Len(ContributorOrder)] ==
        IF i = 0 THEN << >>
        ELSE LET c == ContributorOrder[i]
             IN IF MetricsOf(c) = {} THEN f[i - 1]
                ELSE Append(f[i - 1],
                            [aggregate |-> EXAMPLE_AVG_METRIC, contributor |-> c,
                             value |-> [type |-> "number",
                                        value |-> Average(MetricsOf(c))]])
  IN f[Len(ContributorOrder)]

\* variant: a placeholder is written when there is no value
GlobalAggregatesBatchPlaceholder ==
  << [slug |-> EXAMPLE_AVG_METRIC, name |-> "Example Avg. Metric",
      description |-> "Average of an example metric",
      value |-> IF Cardinality(NumericRows) > 0
                THEN [type |-> "number", value |-> Average(NumericRows)]
                ELSE NULL] >>

\* globalAvg, and the batch handed to upsertGlobalAggregates when it is not null
GlobalAggregatesBatch ==
  IF Cardinality(NumericRows) > 0
  THEN << [slug |-> EXAMPLE_AVG_METRIC, name |-> "Example Avg. Metric",
           description |-> "Average of an example metric",
           value |-> [type |-> "number", value |-> Average(NumericRows)]] >>
  ELSE << >>

\* the award batch of awardEngagementChampionBadges
BadgeSlug(c, variant) == ENGAGEMENT_CHAMPION \o "__" \o c \o "__" \o variant

\* variant: a strict comparison
QualifiesStrict(count, threshold) == count > threshold.required

Qualifies(count, threshold) == count >= threshold.required

\* variant: the date of the run
AwardDateOfRun(first_activity_at) == now

AwardDate(first_activity_at) == first_activity_at

BadgesOf(c, m) ==
  LET g[j \in 0..Len(thresholds)] ==
        IF j = 0 THEN << >>
        ELSE IF Qualifies(m.count, thresholds[j])
             THEN Append(g[j - 1],
                         [slug |-> BadgeSlug(c, thresholds[j].variant),
                          badge |-> ENGAGEMENT_CHAMPION,
                          contributor |-> c,
                          variant |-> thresholds[j].variant,
                          achieved_on |-> AwardDate(m.first_activity_at),
                          meta |-> [activity_count |-> m.count,
                                    threshold |-> thresholds[j].required,
                                    awarded_by |-> "automated"]])
             ELSE g[j - 1]
  IN g[Len(thresholds)]

BadgesToAwardBatch(activityCounts) ==
  LET f[i \in 0..Len(ContributorOrder)] ==
        IF i = 0 THEN << >>
        ELSE LET c == ContributorOrder[i]
             IN IF c \in DOMAIN activityCounts
                THEN f[i - 1] \o BadgesOf(c, activityCounts[c])
                ELSE f[i - 1]
  IN f[Len(ContributorOrder)]

\* ------------------------------------------------------ the store handle
\* process.env.PGLITE_DB_PATH and LEADERBOARD_DATA_PATH: a path, or unset
Unset == ""
MemoryPath == ":memory:"
DbPaths == {MemoryPath, "./db"}
DataPath == "./data"

NoHandle == 0

\* variant: an instance per data path
getDbPerPath(instance, created, dataPath) ==
  IF dataPath = Unset
  THEN [error |-> TRUE, instance |-> instance, created |-> created,
        returned |-> NoHandle]
  ELSE IF instance = NoHandle \/ created[instance] # dataPath
  THEN [error |-> FALSE, instance |-> Len(created) + 1,
        created |-> Append(created, dataPath), returned |-> Len(created) + 1]
  ELSE [error |-> FALSE, instance |-> instance, created |-> created,
        returned |-> instance]

\* getDb: throws when PGLITE_DB_PATH is not set; creates the instance when
\* there is none; returns the instance
getDb(instance, created, dataPath) ==
  IF dataPath = Unset
  THEN [error |-> TRUE, instance |-> instance, created |-> created,
        returned |-> NoHandle]
  ELSE IF instance = NoHandle
  THEN [error |-> FALSE, instance |-> Len(created) + 1,
        created |-> Append(created, dataPath), returned |-> Len(created) + 1]
  ELSE [error |-> FALSE, instance |-> instance, created |-> created,
        returned |-> instance]

\* a run with PGLITE_DB_PATH set reaches the store through getDb
Connected ==
  LET db == getDb(dbInstance, handles, MemoryPath)
  IN /\ dbInstance' = db.instance
     /\ handles' = db.created
     /\ returned' = db.returned

\* the data tree: per kind, a directory that exists or not, and its files
\* <contributor>.json: contributor -> the array of records in the file
Missing == [exists |-> FALSE, files |-> << >>]
NoTree == [activities |-> Missing, badges |-> Missing]
NoExport == [activity |-> EmptyTable, contributor_badge |-> EmptyTable]

\* the error messages of a missing environment variable
PGLITE_DB_PATH_ERROR ==
  "'PGLITE_DB_PATH' environment needs to be set with a path to the database data."
LEADERBOARD_DATA_PATH_ERROR == "LEADERBOARD_DATA_PATH environment variable is not set"

\* ---------------------------------------------------------------- actions
Init ==
  /\ now = 0
  /\ contributor = EmptyTable
  /\ activity_definition = EmptyTable
  /\ activity = EmptyTable
  /\ scraped = [c \in Contributors |-> [count |-> 0, first_at |-> 0]]
  /\ global_aggregate = EmptyTable
  /\ contributor_aggregate_definition = {}
  /\ contributor_aggregate = EmptyTable
  /\ badge_definition = EmptyTable
  /\ contributor_badge = EmptyTable
  /\ script = "none"
  /\ repeated = FALSE
  /\ outcome = "ok"
  /\ issued = {}
  /\ contributorAggregates = << >>
  /\ globalAggregates = << >>
  /\ badgesToAward = << >>
  /\ affectedRows = 0
  /\ dbInstance = NoHandle
  /\ handles = << >>
  /\ returned = NoHandle
  /\ effects = {}
  /\ tree = NoTree
  /\ exported = NoExport
  /\ args = << >>

NoBatches ==
  /\ contributorAggregates' = << >>
  /\ globalAggregates' = << >>
  /\ badgesToAward' = << >>

\* the clock advances between runs
Tick ==
  /\ now < MaxTime
  /\ now' = now + 1
  /\ UNCHANGED <<tables, run, process>>

\* variant: ON CONFLICT (slug) DO NOTHING
upsertActivityDefinitionsDoNothing(table) ==
  [d \in DOMAIN table \cup {EXAMPLE_ACTIVITY} |->
     IF d \in DOMAIN table THEN table[d]
     ELSE [name |-> "Example Activity", description |-> "Example Activity",
           points |-> 0, icon |-> "message-circle"]]

\* INSERT INTO activity_definition ... ON CONFLICT (slug) DO UPDATE
upsertActivityDefinitions(table) ==
  [d \in DOMAIN table \cup {EXAMPLE_ACTIVITY} |->
     IF d = EXAMPLE_ACTIVITY
     THEN [name |-> "Example Activity", description |-> "Example Activity",
           points |-> 0, icon |-> "message-circle"]
     ELSE table[d]]

\* variant: the conflict clause sets value as well
upsertGlobalAggregateDefinitionsReset(table) ==
  [s \in DOMAIN table \cup {EXAMPLE_AVG_METRIC} |->
     IF s = EXAMPLE_AVG_METRIC
     THEN [name |-> "Example Avg. Metric",
           description |-> "Average of an example metric",
           value |-> NULL]
     ELSE table[s]]

\* INSERT INTO global_aggregate (..., NULL) ON CONFLICT (slug) DO UPDATE SET
\* name, description
upsertGlobalAggregateDefinitions(table) ==
  [s \in DOMAIN table \cup {EXAMPLE_AVG_METRIC} |->
     IF s = EXAMPLE_AVG_METRIC
     THEN [name |-> "Example Avg. Metric",
           description |-> "Average of an example metric",
           value |-> IF s \in DOMAIN table THEN table[s].value ELSE NULL]
     ELSE table[s]]

upsertContributorAggregateDefinitions(table) == table \cup {EXAMPLE_AVG_METRIC}

\* scripts/prepare.ts main
Prepare ==
  /\ activity_definition' = upsertActivityDefinitions(activity_definition)
  /\ global_aggregate' = upsertGlobalAggregateDefinitions(global_aggregate)
  /\ contributor_aggregate_definition' =
       upsertContributorAggregateDefinitions(contributor_aggregate_definition)
  /\ script' = "prepare"
  /\ Connected
  /\ effects' = {"query"}
  /\ UNCHANGED <<tree, exported, args>>
  /\ repeated' = FALSE
  /\ outcome' = "ok"
  /\ issued' = {"activity_definition", "global_aggregate",
                "contributor_aggregate_definition"}
  /\ affectedRows' = 0
  /\ NoBatches
  /\ UNCHANGED <<now, contributor, activity, scraped, contributor_aggregate,
                 badge_definition, contributor_badge>>

\* variant: ON CONFLICT (slug) DO NOTHING
upsertBadgeDefinitionDoNothing(table, definition) ==
  [s \in DOMAIN table \cup {definition.slug} |->
     IF s \in DOMAIN table THEN table[s]
     ELSE [name |-> definition.name, description |-> definition.description,
           variants |-> definition.variants]]

\* INSERT INTO badge_definition ... ON CONFLICT (slug) DO UPDATE SET name,
\* description, variants
upsertBadgeDefinition(table, definition) ==
  [s \in DOMAIN table \cup {definition.slug} |->
     IF s = definition.slug
     THEN [name |-> definition.name, description |-> definition.description,
           variants |-> definition.variants]
     ELSE table[s]]

\* the engagement_champion definition of the badge guide
EngagementChampion ==
  [slug |-> ENGAGEMENT_CHAMPION, name |-> "Engagement Champion",
   description |-> "Awarded for active participation...",
   variants |-> {thresholds[i].variant : i \in 1..Len(thresholds)}]

\* a call of upsertBadgeDefinition
UpsertBadgeDefinition(definition) ==
  /\ badge_definition' = upsertBadgeDefinition(badge_definition, definition)
  /\ script' = "upsertBadgeDefinition"
  /\ Connected
  /\ effects' = {"query"}
  /\ UNCHANGED <<tree, exported, args>>
  /\ repeated' = FALSE
  /\ outcome' = "ok"
  /\ issued' = {"badge_definition"}
  /\ affectedRows' = 0
  /\ NoBatches
  /\ UNCHANGED <<now, contributor, activity_definition, activity, scraped,
                 global_aggregate, contributor_aggregate_definition,
                 contributor_aggregate, contributor_badge>>

\* the scrape script: getActivities gives n activities of contributor c, each
\* under a fresh slug, occured_at the current time, meta without example_metric
\* (the n usernames handed to addContributors are n times c, written once)
ScrapeStore(c, n) ==
  /\ scraped[c].count = 0
  /\ Cardinality({d \in Contributors : scraped[d].count > 0}) < MaxScraped
  /\ contributor' = addContributors(contributor, <<c>>).table
  /\ IF EXAMPLE_ACTIVITY \in DOMAIN activity_definition
     THEN /\ scraped' = [scraped EXCEPT ![c] =
                           [count |-> @.count + n,
                            first_at |-> IF @.count = 0 THEN now ELSE Min(@.first_at, now)]]
          /\ outcome' = "ok"
     ELSE /\ scraped' = scraped
          /\ outcome' = "error"
  /\ script' = "scrape"
  /\ Connected
  /\ effects' = {"getActivities", "query"}
  /\ UNCHANGED <<tree, exported>>
  /\ repeated' = FALSE
  /\ issued' = {"contributor", "activity"}
  /\ affectedRows' = 0
  /\ NoBatches
  /\ UNCHANGED <<now, activity_definition, activity, global_aggregate,
                 contributor_aggregate_definition, contributor_aggregate,
                 badge_definition, contributor_badge>>

Scrape(c, n) == ScrapeStore(c, n) /\ UNCHANGED args

\* the lookback of the scrape script. parseInt of the text of SCRAPE_DAYS: a
\* number, or NaN
ScrapeDaysTexts == [t \in {"0", "1", "2"} |-> IF t = "0" THEN 0 ELSE IF t = "1" THEN 1 ELSE 2]
parseInt(text) ==
  IF text \in DOMAIN ScrapeDaysTexts
  THEN [nan |-> FALSE, value |-> ScrapeDaysTexts[text]]
  ELSE NaN

\* days = process.env.SCRAPE_DAYS && parseInt(process.env.SCRAPE_DAYS): what
\* is falsy (no variable, the empty text, NaN, 0) is kept as NaN here
Days(SCRAPE_DAYS) ==
  IF SCRAPE_DAYS = Unset \/ isNaN(parseInt(SCRAPE_DAYS)) \/ parseInt(SCRAPE_DAYS).value = 0
  THEN NaN
  ELSE parseInt(SCRAPE_DAYS)

\* subDays(date, days)
subDays(date, days) == date - days * TicksPerDay

\* since = days ? subDays(new Date(), days).toISOString() : undefined
Undefined == [undefined |-> TRUE]
Since(SCRAPE_DAYS) ==
  IF isNaN(Days(SCRAPE_DAYS)) THEN Undefined
  ELSE toISOString(subDays(now, Days(SCRAPE_DAYS).value))

\* the scrape script with SCRAPE_DAYS given: getActivities(since) is called
\* first, its argument is kept in args
ScrapeMain(SCRAPE_DAYS, c, n) ==
  /\ ScrapeStore(c, n)
  /\ args' = <<Since(SCRAPE_DAYS)>>

\* the import script: activities is the content of the activity files (empty
\* when the directory is missing or holds no .json file), badges that of the
\* badge files; dates are strings turned into Date objects
ImportedActivity(a) == [a EXCEPT !.occured_at = NewDate(a.occured_at)]
ImportedBadge(b) == [b EXCEPT !.achieved_on = NewDate(b.achieved_on)]

\* variant: the activities are added before their contributors
ImportActivitiesFirst(activities, badges) ==
  LET allActivities == [i \in 1..Len(activities) |-> ImportedActivity(activities[i])]
      allBadges == [i \in 1..Len(badges) |-> ImportedBadge(badges[i])]
      ra == addActivities(activity, allActivities, DOMAIN contributor,
                          DOMAIN activity_definition)
      rc == IF ra.error THEN NoStatement(contributor)
            ELSE addContributors(contributor,
                                 [i \in 1..Len(allActivities) |-> allActivities[i].contributor])
      rb == upsertContributorBadges(contributor_badge, allBadges, DOMAIN rc.table,
                                    DOMAIN badge_definition)
      doActivities == Len(activities) > 0
      doBadges == Len(badges) > 0 /\ ~(doActivities /\ ra.error)
  IN /\ doActivities \/ Len(badges) > 0
     /\ contributor' = IF doActivities THEN rc.table ELSE contributor
     /\ activity' = IF doActivities THEN ra.table ELSE activity
     /\ contributor_badge' = IF doBadges THEN rb.table ELSE contributor_badge
     /\ affectedRows' = IF doBadges THEN rb.affected ELSE 0
     /\ outcome' = IF (doActivities /\ ra.error) \/ (doBadges /\ rb.error)
                   THEN "error" ELSE "ok"
     /\ issued' = (IF doActivities THEN {"contributor", "activity"} ELSE {})
                  \cup (IF doBadges THEN {"contributor_badge"} ELSE {})
     /\ script' = "import"
     /\ Connected
     /\ effects' = (IF doActivities \/ doBadges THEN {"query"} ELSE {})
                  \cup {"readdir", "readFile"}
     /\ UNCHANGED <<tree, exported, args>>
     /\ repeated' = FALSE
     /\ NoBatches
     /\ UNCHANGED <<now, activity_definition, scraped, global_aggregate,
                    contributor_aggregate_definition, contributor_aggregate,
                    badge_definition>>

Import(activities, badges) ==
  LET allActivities == [i \in 1..Len(activities) |-> ImportedActivity(activities[i])]
      allBadges == [i \in 1..Len(badges) |-> ImportedBadge(badges[i])]
      rc == addContributors(contributor,
                            [i \in 1..Len(allActivities) |-> allActivities[i].contributor])
      ra == addActivities(activity, allActivities, DOMAIN rc.table,
                          DOMAIN activity_definition)
      rb == upsertContributorBadges(contributor_badge, allBadges, DOMAIN rc.table,
                                    DOMAIN badge_definition)
      doActivities == Len(activities) > 0
      doBadges == Len(badges) > 0 /\ ~(doActivities /\ ra.error)
  IN /\ doActivities \/ Len(badges) > 0
     /\ contributor' = IF doActivities THEN rc.table ELSE contributor
     /\ activity' = IF doActivities THEN ra.table ELSE activity
     /\ contributor_badge' = IF doBadges THEN rb.table ELSE contributor_badge
     /\ affectedRows' = IF doBadges THEN rb.affected ELSE 0
     /\ outcome' = IF (doActivities /\ ra.error) \/ (doBadges /\ rb.error)
                   THEN "error" ELSE "ok"
     /\ issued' = (IF doActivities THEN {"contributor", "activity"} ELSE {})
                  \cup (IF doBadges THEN {"contributor_badge"} ELSE {})
     /\ script' = "import"
     /\ Connected
     /\ effects' = (IF doActivities \/ doBadges THEN {"query"} ELSE {})
                  \cup {"readdir", "readFile"}
     /\ UNCHANGED <<tree, exported, args>>
     /\ repeated' = FALSE
     /\ NoBatches
     /\ UNCHANGED <<now, activity_definition, scraped, global_aggregate,
                    contributor_aggregate_definition, contributor_aggregate,
                    badge_definition>>

\* scripts/pre-build.ts main: calculateAndUpsertExampleMetric, then
\* awardEngagementChampionBadges
PreBuild ==
  LET ca == ContributorAggregatesBatch
      ga == GlobalAggregatesBatch
      ba == BadgesToAwardBatch(getActivityCounts)
      rb == upsertContributorBadges(contributor_badge, ba, DOMAIN contributor,
                                    DOMAIN badge_definition)
  IN /\ script' = "pre-build"
     /\ Connected
     /\ effects' = {"query"}
     /\ UNCHANGED <<tree, exported, args>>
     /\ repeated' = (script = "pre-build")
     /\ IF CastFails
        THEN /\ outcome' = "error"
             /\ issued' = {}
             /\ affectedRows' = 0
             /\ NoBatches
             /\ UNCHANGED <<contributor_aggregate, global_aggregate, contributor_badge>>
        ELSE /\ contributorAggregates' = ca
             /\ globalAggregates' = ga
             /\ badgesToAward' = ba
             /\ contributor_aggregate' =
                  IF Len(ca) > 0
                  THEN upsertContributorAggregates(contributor_aggregate, ca).table
                  ELSE contributor_aggregate
             /\ global_aggregate' =
                  IF Len(ga) > 0
                  THEN upsertGlobalAggregates(global_aggregate, ga).table
                  ELSE global_aggregate
             /\ contributor_badge' = IF Len(ba) > 0 THEN rb.table ELSE contributor_badge
             /\ affectedRows' = IF Len(ba) > 0 THEN rb.affected ELSE 0
             /\ outcome' = IF Len(ba) > 0 /\ rb.error THEN "error" ELSE "ok"
             /\ issued' = (IF Len(ca) > 0 THEN {"contributor_aggregate"} ELSE {})
                          \cup (IF Len(ga) > 0 THEN {"global_aggregate"} ELSE {})
                          \cup (IF Len(ba) > 0 THEN {"contributor_badge"} ELSE {})
     /\ UNCHANGED <<now, contributor, activity_definition, activity, scraped,
                    contributor_aggregate_definition, badge_definition>>

\* a run that ends before it reaches the store or the data tree
Stopped(name, error) ==
  /\ script' = name
  /\ repeated' = FALSE
  /\ outcome' = error
  /\ issued' = {}
  /\ affectedRows' = 0
  /\ NoBatches
  /\ UNCHANGED <<now, tables, tree, exported, args>>

\* the rows of a set as an array, in some order
RECURSIVE ArrayOf(_)
ArrayOf(rows) ==
  IF rows = {} THEN << >>
  ELSE LET r == CHOOSE r \in rows : TRUE
       IN <<r>> \o ArrayOf(rows \ {r})

\* JSON.stringify of a row of SELECT * FROM activity: occured_at, a Date,
\* becomes its ISO string
ExportedActivity(s) ==
  [slug |-> s, contributor |-> activity[s].contributor,
   activity_definition |-> activity[s].activity_definition,
   title |-> activity[s].title, occured_at |-> toISOString(activity[s].occured_at),
   link |-> activity[s].link, text |-> activity[s].text,
   points |-> activity[s].points, meta |-> activity[s].meta]

\* JSON.stringify of a row of SELECT * FROM contributor_badge: achieved_on, a
\* DATE column read as the Date of its midnight, becomes an ISO string
ExportedBadge(s) ==
  [slug |-> s, badge |-> contributor_badge[s].badge,
   contributor |-> contributor_badge[s].contributor,
   variant |-> contributor_badge[s].variant,
   achieved_on |-> toISOString(DateOfDay(contributor_badge[s].achieved_on)),
   meta |-> contributor_badge[s].meta]

\* variant: the directory is made when the first file is written
WriteFilesThenMkdir(dir, files) ==
  [exists |-> dir.exists \/ DOMAIN files # {},
   files |-> [c \in DOMAIN dir.files \cup DOMAIN files |->
                IF c \in DOMAIN files THEN files[c] ELSE dir.files[c]]]

\* mkdir(dir, recursive) and one writeFile per contributor: a file of the
\* same name is replaced, the other files of the directory stay
WriteFiles(dir, files) ==
  [exists |-> TRUE,
   files |-> [c \in DOMAIN dir.files \cup DOMAIN files |->
                IF c \in DOMAIN files THEN files[c] ELSE dir.files[c]]]

\* scripts/export.ts main, with PGLITE_DB_PATH = dbPath and
\* LEADERBOARD_DATA_PATH = dataPath. The stores exported are those without
\* rows of the scrape stage.
Export(dbPath, dataPath) ==
  LET db == getDb(dbInstance, handles, dbPath)
      activities == {s \in DOMAIN activity :
                       activity[s].activity_definition \in {EXAMPLE_ACTIVITY}}
      activitiesByContributor ==
        [c \in {activity[s].contributor : s \in activities} |->
           ArrayOf({ExportedActivity(s) : s \in {x \in activities :
                                                  activity[x].contributor = c}})]
      badges == {s \in DOMAIN contributor_badge :
                   contributor_badge[s].badge = ENGAGEMENT_CHAMPION}
      badgesByContributor ==
        [c \in {contributor_badge[s].contributor : s \in badges} |->
           ArrayOf({ExportedBadge(s) : s \in {x \in badges :
                                               contributor_badge[x].contributor = c}})]
  IN /\ \A c \in Contributors : scraped[c].count = 0
     /\ dbInstance' = db.instance
     /\ handles' = db.created
     /\ returned' = db.returned
     /\ IF db.error
        THEN Stopped("export", PGLITE_DB_PATH_ERROR) /\ effects' = {}
        ELSE IF dataPath = Unset
        THEN Stopped("export", LEADERBOARD_DATA_PATH_ERROR) /\ effects' = {}
        ELSE /\ script' = "export"
             /\ repeated' = FALSE
             /\ outcome' = "ok"
             /\ issued' = {}
             /\ affectedRows' = 0
             /\ NoBatches
             /\ effects' = {"query", "mkdir"}
                           \cup (IF activities # {} \/ badges # {}
                                 THEN {"writeFile"} ELSE {})
             /\ tree' = [activities |-> WriteFiles(tree.activities, activitiesByContributor),
                         badges |-> WriteFiles(tree.badges, badgesByContributor)]
             /\ exported' = [activity |-> activity,
                             contributor_badge |-> contributor_badge]
             /\ UNCHANGED <<now, tables, args>>

\* the records of the .json files of a directory, in the order of readdir
FilesOf(dir) ==
  IF ~dir.exists THEN << >>
  ELSE LET f[i \in 0..Len(ContributorOrder)] ==
             IF i = 0 THEN << >>
             ELSE IF ContributorOrder[i] \in DOMAIN dir.files
             THEN f[i - 1] \o dir.files[ContributorOrder[i]]
             ELSE f[i - 1]
       IN f[Len(ContributorOrder)]

\* the import script, with PGLITE_DB_PATH = dbPath and LEADERBOARD_DATA_PATH
\* = dataPath, over the data tree: getDb is first called by addContributors,
\* or by upsertContributorBadges when there is no activity file
ImportRun(dbPath, dataPath) ==
  LET activities == FilesOf(tree.activities)
      badges == FilesOf(tree.badges)
      read == (IF tree.activities.exists \/ tree.badges.exists
               THEN {"readdir"} ELSE {})
              \cup (IF Len(activities) + Len(badges) > 0 THEN {"readFile"} ELSE {})
  IN IF dataPath = Unset
     THEN /\ Stopped("import", LEADERBOARD_DATA_PATH_ERROR)
          /\ effects' = {}
          /\ returned' = NoHandle
          /\ UNCHANGED <<dbInstance, handles>>
     ELSE IF Len(activities) + Len(badges) = 0
     THEN /\ Stopped("import", "ok")
          /\ effects' = read
          /\ returned' = NoHandle
          /\ UNCHANGED <<dbInstance, handles>>
     ELSE IF dbPath = Unset
     THEN /\ Stopped("import", PGLITE_DB_PATH_ERROR)
          /\ effects' = read
          /\ returned' = NoHandle
          /\ UNCHANGED <<dbInstance, handles>>
     ELSE Import(activities, badges)

\* a test's setup: PGLITE_DB_PATH names a new, empty database and
\* resetDbInstance drops the handle of the old one
NewStore ==
  /\ dbInstance' = NoHandle
  /\ contributor' = EmptyTable
  /\ activity_definition' = EmptyTable
  /\ activity' = EmptyTable
  /\ scraped' = [c \in Contributors |-> [count |-> 0, first_at |-> 0]]
  /\ global_aggregate' = EmptyTable
  /\ contributor_aggregate_definition' = {}
  /\ contributor_aggregate' = EmptyTable
  /\ badge_definition' = EmptyTable
  /\ contributor_badge' = EmptyTable
  /\ script' = "setup"
  /\ repeated' = FALSE
  /\ outcome' = "ok"
  /\ issued' = {}
  /\ affectedRows' = 0
  /\ NoBatches
  /\ effects' = {}
  /\ UNCHANGED <<now, handles, returned, tree, exported, args>>

\* ------------------------------------------ store operations called alone
\* what a call of a chunked upsert on a collection leaves behind, r being
\* its result on the table it writes
Called(name, table, r, collection) ==
  /\ script' = name
  /\ repeated' = FALSE
  /\ outcome' = IF r.error THEN "error" ELSE "ok"
  /\ issued' = IF Len(collection) > 0 THEN {table} ELSE {}
  /\ affectedRows' = r.affected
  /\ NoBatches
  /\ effects' = IF Len(collection) > 0 THEN {"query"} ELSE {}
  /\ args' = collection
  /\ UNCHANGED <<now, tree, exported>>

AddContributors(contributors) ==
  \E r \in {addContributors(contributor, contributors)} :
     /\ contributor' = r.table
     /\ Called("addContributors", "contributor", r, contributors)
     /\ Connected
     /\ UNCHANGED <<activity_definition, activity, scraped, global_aggregate,
                    contributor_aggregate_definition, contributor_aggregate,
                    badge_definition, contributor_badge>>

AddActivities(activities) ==
  \E r \in {addActivities(activity, activities, DOMAIN contributor,
                               DOMAIN activity_definition)} :
     /\ activity' = r.table
     /\ Called("addActivities", "activity", r, activities)
     /\ Connected
     /\ UNCHANGED <<contributor, activity_definition, scraped, global_aggregate,
                    contributor_aggregate_definition, contributor_aggregate,
                    badge_definition, contributor_badge>>

UpsertContributorAggregates(aggregates) ==
  \E r \in {upsertContributorAggregates(contributor_aggregate, aggregates)} :
     /\ contributor_aggregate' = r.table
     /\ Called("upsertContributorAggregates", "contributor_aggregate", r, aggregates)
     /\ IF Len(aggregates) = 0
        THEN UNCHANGED <<dbInstance, handles, returned>>
        ELSE Connected
     /\ UNCHANGED <<contributor, activity_definition, activity, scraped,
                    global_aggregate, contributor_aggregate_definition,
                    badge_definition, contributor_badge>>

UpsertContributorBadges(badges) ==
  \E r \in {upsertContributorBadges(contributor_badge, badges, DOMAIN contributor,
                                         DOMAIN badge_definition)} :
     /\ contributor_badge' = r.table
     /\ Called("upsertContributorBadges", "contributor_badge", r, badges)
     /\ IF Len(badges) = 0
        THEN UNCHANGED <<dbInstance, handles, returned>>
        ELSE Connected
     /\ UNCHANGED <<contributor, activity_definition, activity, scraped,
                    global_aggregate, contributor_aggregate_definition,
                    contributor_aggregate, badge_definition>>

\* a query by hand, as a test issues it: UPDATE activity_definition SET
\* <column> = <value> WHERE slug = $1, with the parameters [example_activity]
UpdateActivityDefinition(column, value) ==
  /\ activity_definition' =
       [d \in DOMAIN activity_definition |->
          IF d = EXAMPLE_ACTIVITY
          THEN [activity_definition[d] EXCEPT ![column] = value]
          ELSE activity_definition[d]]
  /\ script' = "update"
  /\ repeated' = FALSE
  /\ outcome' = "ok"
  /\ issued' = {"activity_definition"}
  /\ affectedRows' = 0
  /\ NoBatches
  /\ Connected
  /\ effects' = {"query"}
  /\ args' = <<EXAMPLE_ACTIVITY>>
  /\ UNCHANGED <<now, contributor, activity, scraped, global_aggregate,
                 contributor_aggregate_definition, contributor_aggregate,
                 badge_definition, contributor_badge, tree, exported>>

\* ------------------------------------------------- runs in an environment
\* the scripts with PGLITE_DB_PATH = dbPath: the first getDb call of the run
\* throws when it is not set
PrepareRun(dbPath) ==
  IF dbPath = Unset
  THEN /\ Stopped("prepare", PGLITE_DB_PATH_ERROR)
       /\ effects' = {}
       /\ returned' = NoHandle
       /\ UNCHANGED <<dbInstance, handles>>
  ELSE Prepare

\* scrape: getActivities is called before addContributors reaches getDb
ScrapeRun(dbPath, c, n) ==
  IF dbPath = Unset
  THEN /\ Stopped("scrape", PGLITE_DB_PATH_ERROR)
       /\ effects' = {"getActivities"}
       /\ returned' = NoHandle
       /\ UNCHANGED <<dbInstance, handles>>
  ELSE Scrape(c, n)

PreBuildRun(dbPath) ==
  IF dbPath = Unset
  THEN /\ Stopped("pre-build", PGLITE_DB_PATH_ERROR)
       /\ effects' = {}
       /\ returned' = NoHandle
       /\ UNCHANGED <<dbInstance, handles>>
  ELSE PreBuild

\* the data repository is checked out under LEADERBOARD_DATA_PATH
CheckOut(t) ==
  /\ tree' = t
  /\ script' = "checkout"
  /\ repeated' = FALSE
  /\ outcome' = "ok"
  /\ issued' = {}
  /\ affectedRows' = 0
  /\ NoBatches
  /\ effects' = {}
  /\ UNCHANGED <<now, tables, dbInstance, handles, returned, exported, args>>

\* a call of getDb with PGLITE_DB_PATH = dbPath
GetDb(dbPath) ==
  LET db == getDb(dbInstance, handles, dbPath)
  IN /\ Len(db.created) <= MaxHandles
     /\ dbInstance' = db.instance
     /\ handles' = db.created
     /\ returned' = db.returned
     /\ script' = "getDb"
     /\ repeated' = FALSE
     /\ outcome' = IF db.error THEN PGLITE_DB_PATH_ERROR ELSE "ok"
     /\ issued' = {}
     /\ affectedRows' = 0
     /\ NoBatches
     /\ effects' = {}
     /\ UNCHANGED <<now, tables, tree, exported, args>>

\* resetDbInstance: dbInstance = null
ResetDbInstance ==
  /\ dbInstance' = NoHandle
  /\ script' = "resetDbInstance"
  /\ repeated' = FALSE
  /\ outcome' = "ok"
  /\ issued' = {}
  /\ affectedRows' = 0
  /\ NoBatches
  /\ effects' = {}
  /\ UNCHANGED <<now, tables, handles, returned, tree, exported, args>>

\* ---------------------------------------------------------- specifications
\* the activity files of an import: one activity without example_metric
ActivityFiles ==
  {<<[slug |-> s, contributor |-> c, activity_definition |-> EXAMPLE_ACTIVITY,
      title |-> "Example Activity", occured_at |-> toISOString(t), link |-> "https://example.com",
      text |-> "Example Activity", points |-> 0, meta |-> Absent]>> :
     s \in Slugs, c \in Contributors, t \in Times}

\* the badge files of an import: one hand-made bronze award
BadgeFiles ==
  {<<[slug |-> BadgeSlug(c, "bronze"), badge |-> ENGAGEMENT_CHAMPION,
      contributor |-> c, variant |-> "bronze", achieved_on |-> DayString(d),
      meta |-> [activity_count |-> 0, threshold |-> 0, awarded_by |-> "manual"]]>> :
     c \in Contributors, d \in {Day(t) : t \in Times}}

\* the activity files of an import: one activity that carries example_metric
MetricFiles ==
  {<<[slug |-> s, contributor |-> c, activity_definition |-> EXAMPLE_ACTIVITY,
      title |-> "Example Activity", occured_at |-> toISOString(0), link |-> "https://example.com",
      text |-> "Example Activity", points |-> 0, meta |-> m]>> :
     s \in MetricSlugs, c \in Contributors, m \in Metrics \ {Absent}}

Next ==
  \/ Tick
  \/ Prepare
  \/ UpsertBadgeDefinition(EngagementChampion)
  \/ \E c \in Contributors, n \in ScrapeSizes : Scrape(c, n)
  \/ \E a \in ActivityFiles : Import(a, << >>)
  \/ PreBuild

Spec == Init /\ [][Next]_vars

NextAgg ==
  \/ Prepare
  \/ \E a \in MetricFiles : Import(a, << >>)
  \/ PreBuild

SpecAgg == Init /\ [][NextAgg]_vars

\* the stages with badge files among the imports
BadgeScrapeSizes == {9, 50}

NextBadge ==
  \/ Tick
  \/ Prepare
  \/ UpsertBadgeDefinition(EngagementChampion)
  \/ \E c \in Contributors, n \in BadgeScrapeSizes : Scrape(c, n)
  \/ \E a \in ActivityFiles : Import(a, << >>)
  \/ \E b \in BadgeFiles : Import(<< >>, b)
  \/ PreBuild

SpecBadge == Init /\ [][NextBadge]_vars

\* the round trip: a store is filled, exported once, and a new store is
\* prepared and filled from the exported files
RoundActivityFiles == {f \in MetricFiles : f[1].meta = "2" /\ f[1].slug <= 2}

NextRound ==
  \/ Prepare
  \/ UpsertBadgeDefinition(EngagementChampion)
  \/ \E a \in RoundActivityFiles : Import(a, << >>)
  \/ \E b \in BadgeFiles : Import(<< >>, b)
  \/ tree = NoTree /\ Export(MemoryPath, DataPath)
  \/ tree # NoTree /\ Len(handles) < 2 /\ NewStore
  \/ tree # NoTree /\ ImportRun(MemoryPath, DataPath)

SpecRound == Init /\ [][NextRound]_vars

\* chunking: a prepared store that holds contributor a takes one collection:
\* a few rows, or a full chunk followed by a few rows
ChunkLengths == {0, 1, 2, ChunkSize}

\* the sequences of one or two rows of a set
Tails(rows) == {<<r>> : r \in rows} \cup {<<r, q>> : r, q \in rows}

ChunkActivity(s, c) ==
  [slug |-> s, contributor |-> c, activity_definition |-> EXAMPLE_ACTIVITY,
   title |-> "Example Activity", occured_at |-> 0, link |-> "https://example.com",
   text |-> "Example Activity", points |-> 0, meta |-> Absent]

ChunkBadge(variant, c) ==
  [slug |-> BadgeSlug(c, variant), badge |-> ENGAGEMENT_CHAMPION, contributor |-> c,
   variant |-> variant, achieved_on |-> 0,
   meta |-> [activity_count |-> 0, threshold |-> 0, awarded_by |-> "manual"]]

ChunkAggregate(c, v) ==
  [aggregate |-> EXAMPLE_AVG_METRIC, contributor |-> c,
   value |-> [type |-> "number", value |-> v]]

\* the first n rows of a long collection, each under a key of its own
FirstActivities(n) == [i \in 1..n |-> ChunkActivity(i, "a")]
FirstContributors(n) == [i \in 1..n |-> "u" \o ToString(i)]
FirstAggregates(n) == [i \in 1..n |-> ChunkAggregate("u" \o ToString(i), 1)]
FirstBadges(n) == [i \in 1..n |-> ChunkBadge("v" \o ToString(i), "a")]

\* the rows that follow: the key of the first row again, or a new key; a
\* contributor that is stored (a), or one that is not (b)
ActivityCollections ==
  {FirstActivities(n) \o t :
     n \in ChunkLengths,
     t \in Tails({ChunkActivity(1, "a"), ChunkActivity(ChunkSize + 1, "a"),
                  ChunkActivity(ChunkSize + 1, "b")})}
  \cup {<<ChunkActivity(ChunkSize + 1, "b")>> \o FirstActivities(ChunkSize)}
ContributorCollections ==
  {FirstContributors(n) \o t : n \in ChunkLengths, t \in Tails({"u1", "a"})}
AggregateCollections ==
  {FirstAggregates(n) \o t :
     n \in ChunkLengths, t \in Tails({ChunkAggregate("u1", 2), ChunkAggregate("a", 1)})}
BadgeCollections ==
  {FirstBadges(n) \o t :
     n \in ChunkLengths, t \in Tails({ChunkBadge("v1", "a"), ChunkBadge("bronze", "b")})}
  \cup {<<ChunkBadge("bronze", "b")>> \o FirstBadges(ChunkSize)}

ChunkFile == <<[ChunkActivity(1, "a") EXCEPT !.occured_at = toISOString(0)]>>

\* the collection is the last thing the store takes
ReadyForCollection ==
  /\ script = "import" /\ outcome = "ok"
  /\ ENGAGEMENT_CHAMPION \in DOMAIN badge_definition
  /\ Len(args) = 0

NextChunk ==
  \/ Len(args) = 0 /\ Prepare
  \/ Len(args) = 0 /\ UpsertBadgeDefinition(EngagementChampion)
  \/ Len(args) = 0 /\ Import(ChunkFile, << >>)
  \/ ReadyForCollection /\ \E c \in ContributorCollections : AddContributors(c)
  \/ ReadyForCollection /\ \E c \in ActivityCollections : AddActivities(c)
  \/ ReadyForCollection /\ \E c \in AggregateCollections : UpsertContributorAggregates(c)
  \/ ReadyForCollection /\ \E c \in BadgeCollections : UpsertContributorBadges(c)

SpecChunk == Init /\ [][NextChunk]_vars

\* ingestion: contributors and versions of one activity are handed to the
\* store, again and again
ContributorLists ==
  {<< >>} \cup Tails(Contributors)
  \cup {<<c, d, e>> : c \in Contributors, d \in Contributors, e \in Contributors}

\* the activity as first scraped, the same with one field revised, and with
\* every field revised
ScrapedActivity == ChunkActivity(1, "a")
RevisedActivity ==
  [ScrapedActivity EXCEPT !.contributor = "b", !.title = "Revised Activity",
                          !.occured_at = 1, !.link = "https://example.com/revised",
                          !.text = "Revised Activity", !.points = 5, !.meta = "2"]
ActivityVersions ==
  {ScrapedActivity, RevisedActivity}
  \cup {[ScrapedActivity EXCEPT ![f] = RevisedActivity[f]] :
          f \in {"title", "occured_at", "link", "text", "points", "meta"}}

NextIngest ==
  \/ Prepare
  \/ \E c \in ContributorLists : AddContributors(c)
  \/ \E a \in ActivityVersions : AddActivities(<<a>>)

SpecIngest == Init /\ [][NextIngest]_vars

\* definitions: the definitions are upserted again and again, the stored
\* activity definition is edited by hand in between, and versions of one award
\* are upserted
ManualUpdates ==
  {<<"name", "Updated Name">>, <<"description", "Updated Description">>,
   <<"points", 5>>, <<"icon", "star">>}

BadgeDefinitionVersions ==
  {[EngagementChampion EXCEPT !.name = n, !.description = d, !.variants = v] :
     n \in {"Engagement Champion", "Champion"},
     d \in {"Awarded for active participation...", "Awarded for taking part"},
     v \in {EngagementChampion.variants, {"bronze"}}}

AwardVersions ==
  {[ChunkBadge("bronze", "a") EXCEPT !.achieved_on = t, !.meta.awarded_by = by] :
     t \in {0, DateOfDay(1)}, by \in {"manual", "automated"}}

NextDefs ==
  \/ Prepare
  \/ \E u \in ManualUpdates : UpdateActivityDefinition(u[1], u[2])
  \/ \E d \in BadgeDefinitionVersions : UpsertBadgeDefinition(d)
  \/ AddContributors(<<"a">>)
  \/ \E b \in AwardVersions : UpsertContributorBadges(<<b>>)

SpecDefs == Init /\ [][NextDefs]_vars

\* the environment: each script runs with each variable set or not, over a
\* data tree whose directories are missing, without .json file, or hold the
\* file of contributor a
Directories(records) ==
  {Missing, [exists |-> TRUE, files |-> << >>],
   [exists |-> TRUE, files |-> [c \in {"a"} |-> records]]}

DataTrees ==
  {[activities |-> x, badges |-> y] :
     x \in Directories(ChunkFile),
     y \in Directories(<<[ChunkBadge("bronze", "a") EXCEPT
                            !.achieved_on = toISOString(0)]>>)}

DbPathSettings == {Unset, MemoryPath}
DataPathSettings == {Unset, DataPath}

NextEnv ==
  \/ \E t \in DataTrees : script = "none" /\ CheckOut(t)
  \/ UpsertBadgeDefinition(EngagementChampion)
  \/ \E db \in DbPathSettings : PrepareRun(db)
  \/ \E db \in DbPathSettings : ScrapeRun(db, "a", 9)
  \/ \E db \in DbPathSettings : PreBuildRun(db)
  \/ \E db \in DbPathSettings, data \in DataPathSettings : Export(db, data)
  \/ \E db \in DbPathSettings, data \in DataPathSettings : ImportRun(db, data)

SpecEnv == Init /\ [][NextEnv]_vars

\* the store handle: getDb under each setting of PGLITE_DB_PATH, resets,
\* and prepare runs that reach the store through the handle
NextDb ==
  \/ \E path \in DbPaths \cup {Unset} : GetDb(path)
  \/ ResetDbInstance
  \/ Len(handles) < MaxHandles /\ Prepare

SpecDb == Init /\ [][NextDb]_vars

\* the lookback window: scrape runs under each setting of SCRAPE_DAYS, at
\* each time
ScrapeDaysSettings == {Unset, "0", "1", "2", "abc"}

NextScrape ==
  \/ Tick
  \/ Prepare
  \/ \E d \in ScrapeDaysSettings, c \in Contributors, n \in BadgeScrapeSizes :
       ScrapeMain(d, c, n)

SpecScrape == Init /\ [][NextScrape]_vars

\* imports of files whose date fields may be no date: two activities of two
\* slugs, and the bronze awards of the two contributors
DateStrings == {toISOString(0), Unparsable}
DatedActivity(s, c, d) ==
  [slug |-> s, contributor |-> c, activity_definition |-> EXAMPLE_ACTIVITY,
   title |-> "Example Activity", occured_at |-> d, link |-> "https://example.com",
   text |-> "Example Activity", points |-> 0, meta |-> Absent]
DatedBadge(c, d) ==
  [slug |-> BadgeSlug(c, "bronze"), badge |-> ENGAGEMENT_CHAMPION,
   contributor |-> c, variant |-> "bronze", achieved_on |-> d,
   meta |-> [activity_count |-> 0, threshold |-> 0, awarded_by |-> "manual"]]
DatedActivityFiles ==
  {<<DatedActivity(1, c1, d1), DatedActivity(2, c2, d2)>> :
     c1 \in Contributors, c2 \in Contributors, d1 \in DateStrings, d2 \in DateStrings}
DatedBadgeFiles ==
  {<<DatedBadge("a", d1), DatedBadge("b", d2)>> :
     d1 \in {DayString(0), Unparsable}, d2 \in {DayString(1), Unparsable}}

NextDates ==
  \/ Prepare
  \/ UpsertBadgeDefinition(EngagementChampion)
  \/ \E a \in DatedActivityFiles : Import(a, << >>)
  \/ \E b \in DatedBadgeFiles : Import(<< >>, b)
  \/ \E a \in DatedActivityFiles, b \in DatedBadgeFiles : Import(a, b)

SpecDates == Init /\ [][NextDates]_vars

\* ------------------------------------------------------------------ claims

\* C1: running awardEngagementChampionBadges a second time, with no change to
\* the activity store since the first run, leaves the contributor_badge store
\* as the first run left it and inserts zero rows.
C1_SecondAwardChangesNothing ==
  /\ [][(script = "pre-build" /\ PreBuild) => contributor_badge' = contributor_badge]_vars
  /\ [](script = "pre-build" /\ repeated => affectedRows = 0)

\* the second of two runs had a batch to award and inserted none of it
C1_Witness ==
  /\ script = "pre-build"
  /\ repeated
  /\ outcome = "ok"
  /\ Len(badgesToAward) > 0
  /\ affectedRows = 0
  /\ \A i \in 1..Len(badgesToAward) : badgesToAward[i].slug \in DOMAIN contributor_badge

\* C3: in one pass of awardEngagementChampionBadges the variants put in the
\* batch for a contributor with activity count C are exactly those whose
\* requirement (bronze 10, silver 50, gold 100, platinum 500, diamond 1000) is
\* at most C, each once, under the slug engagement_champion__<contributor>__<variant>.
C3_VariantsAreThoseReached ==
  LET required == [v \in {"bronze", "silver", "gold", "platinum", "diamond"} |->
                     IF v = "bronze" THEN 10 ELSE IF v = "silver" THEN 50
                     ELSE IF v = "gold" THEN 100 ELSE IF v = "platinum" THEN 500
                     ELSE 1000]
      batchOf(c) == {i \in 1..Len(badgesToAward) : badgesToAward[i].contributor = c}
  IN (script = "pre-build" /\ ~CastFails) =>
       /\ \A c \in Contributors :
            /\ {badgesToAward[i].variant : i \in batchOf(c)}
                 = {v \in DOMAIN required : required[v] <= CountOf(c)}
            /\ \A i, j \in batchOf(c) :
                 badgesToAward[i].variant = badgesToAward[j].variant => i = j
       /\ \A i \in 1..Len(badgesToAward) :
            /\ badgesToAward[i].contributor \in Contributors
            /\ badgesToAward[i].slug =
                 "engagement_champion__" \o badgesToAward[i].contributor
                    \o "__" \o badgesToAward[i].variant

\* a contributor with exactly 50 activities got bronze and silver only, while
\* another contributor with fewer than 10 got nothing
C3_Witness ==
  /\ script = "pre-build"
  /\ \E c \in Contributors :
       /\ CountOf(c) = 50
       /\ {badgesToAward[i].variant : i \in {i \in 1..Len(badgesToAward) :
                                               badgesToAward[i].contributor = c}}
            = {"bronze", "silver"}
  /\ \E c \in Contributors :
       /\ CountOf(c) > 0 /\ CountOf(c) < 10
       /\ \A i \in 1..Len(badgesToAward) : badgesToAward[i].contributor # c

\* C4: over an empty award store, every award a pre-build run writes carries
\* the day of its contributor's earliest occured_at, whatever the time of the run.
C4_AwardDateIsFirstActivityDay ==
  [][(PreBuild /\ DOMAIN contributor_badge = {}) =>
       \A s \in DOMAIN contributor_badge' :
         contributor_badge'[s].achieved_on
           = Day(FirstActivityAt(contributor_badge'[s].contributor))]_vars

\* a run on a later day than the first activity wrote every stored award
C4_Witness ==
  /\ script = "pre-build"
  /\ affectedRows > 0
  /\ affectedRows = Cardinality(DOMAIN contributor_badge)
  /\ \E s \in DOMAIN contributor_badge :
       /\ contributor_badge[s].achieved_on < Day(now)
       /\ \E r \in RowsOf(contributor_badge[s].contributor) :
            activity[r].occured_at > FirstActivityAt(contributor_badge[s].contributor)

\* C8: when no activity matches the aggregate filter and no contributor
\* reaches a threshold, a pre-build run writes no aggregate and no award,
\* issues no upsert and ends without an error.
C8_NothingToDoIsNoOp ==
  [][(PreBuild /\ MatchingRows = {} /\ \A c \in Contributors : CountOf(c) < 10) =>
       /\ global_aggregate' = global_aggregate
       /\ contributor_aggregate' = contributor_aggregate
       /\ contributor_badge' = contributor_badge
       /\ issued' = {}
       /\ outcome' = "ok"]_vars

\* such a run over a store that holds activities
C8_Witness ==
  /\ script = "pre-build"
  /\ outcome = "ok"
  /\ issued = {}
  /\ MatchingRows = {}
  /\ \E c \in Contributors : CountOf(c) > 0
  /\ \A c \in Contributors : CountOf(c) < 10

\* C2: once a contributor_badge row is stored under a slug, no later call of
\* upsertContributorBadges, from a pre-build pass or from an import, changes
\* its achieved_on or its meta (nor any other column); the row stays stored.
C2_StoredBadgeIsNeverChanged ==
  [][\A s \in DOMAIN contributor_badge :
        /\ s \in DOMAIN contributor_badge'
        /\ contributor_badge'[s] = contributor_badge[s]]_vars

\* a pre-build pass offered, for a slug that an import had stored by hand, an
\* award with another meta, and the hand-made row is still the stored one
C2_Witness ==
  /\ script = "pre-build"
  /\ outcome = "ok"
  /\ \E i \in 1..Len(badgesToAward) :
       LET b == badgesToAward[i]
       IN /\ b.slug \in DOMAIN contributor_badge
          /\ contributor_badge[b.slug].meta.awarded_by = "manual"
          /\ b.meta.awarded_by = "automated"
          /\ contributor_badge[b.slug].achieved_on # Day(b.achieved_on)

\* v is the mean of the numeric example_metric values of rows, rounded to the
\* nearest integer, a tie going up: v - 1/2 <= sum/n < v + 1/2
IsRoundedMean(v, rows) ==
  LET n == Cardinality(rows)
      sum == SumOf(rows)
  IN n > 0 /\ n * (2 * v - 1) <= 2 * sum /\ 2 * sum < n * (2 * v + 1)

\* C5: after a pre-build pass over a store with at least one matching numeric
\* example_metric value, the global aggregate example_avg_metric is stored
\* and its value is the rounded mean of all the values of all contributors.
C5_GlobalIsMeanOfAllValues ==
  (script = "pre-build" /\ NumericRows # {}) =>
    /\ Len(globalAggregates) = 1
    /\ EXAMPLE_AVG_METRIC \in DOMAIN global_aggregate
    /\ global_aggregate[EXAMPLE_AVG_METRIC].value # NULL
    /\ IsRoundedMean(global_aggregate[EXAMPLE_AVG_METRIC].value.value, NumericRows)

\* C6: after a pre-build pass, each contributor with at least one matching
\* numeric value has a contributor aggregate written by the pass, equal to
\* the rounded mean of its own values, and the pass wrote none for any other.
C6_OneAggregatePerContributor ==
  script = "pre-build" =>
    /\ \A c \in Contributors :
         MetricsOf(c) # {} =>
           /\ Cardinality({i \in 1..Len(contributorAggregates) :
                             contributorAggregates[i].contributor = c}) = 1
           /\ <<EXAMPLE_AVG_METRIC, c>> \in DOMAIN contributor_aggregate
           /\ IsRoundedMean(contributor_aggregate[<<EXAMPLE_AVG_METRIC, c>>].value, MetricsOf(c))
    /\ \A i \in 1..Len(contributorAggregates) :
         MetricsOf(contributorAggregates[i].contributor) # {}

\* C7: every aggregate a pre-build pass computes and stores is the mean of its
\* values rounded to the nearest integer, and a mean halfway between two
\* integers goes to the upper one ([2, 3] gives 3).
C7_RoundHalfUp ==
  (script = "pre-build" /\ outcome = "ok") =>
    /\ \A i \in 1..Len(contributorAggregates) :
         LET a == contributorAggregates[i]
         IN /\ IsRoundedMean(a.value.value, MetricsOf(a.contributor))
            /\ contributor_aggregate[AggregateKey(a)] = a.value
    /\ \A i \in 1..Len(globalAggregates) :
         LET g == globalAggregates[i]
         IN /\ IsRoundedMean(g.value.value, NumericRows)
            /\ global_aggregate[g.slug].value = g.value

\* a pass stored 3 for a contributor whose values are 2 and 3, and stored a
\* global mean that is a tie as well
C7_Witness ==
  /\ script = "pre-build"
  /\ outcome = "ok"
  /\ \E c \in Contributors :
       /\ {activity[s].meta : s \in MetricsOf(c)} = {"2", "3"}
       /\ Cardinality(MetricsOf(c)) = 2
       /\ contributor_aggregate[<<EXAMPLE_AVG_METRIC, c>>] = [type |-> "number", value |-> 3]
  /\ 2 * SumOf(NumericRows) =
       Cardinality(NumericRows) * (2 * global_aggregate[EXAMPLE_AVG_METRIC].value.value - 1)

\* C9 as stated: no global_aggregate record ever has a null value.
C9_NoNullGlobalAggregate ==
  \A s \in DOMAIN global_aggregate : global_aggregate[s].value # NULL

\* C9, amended: a global_aggregate record with a null value is only the row
\* prepare inserted and no pre-build pass has given a value yet. A pre-build
\* pass never writes a null value and never adds a record with one; a stored
\* value is never set back to null, by prepare or by any other run; and a
\* record with a value exists only with a matching numeric activity stored.
C9_NullOnlyBeforeFirstValue ==
  /\ [][\A s \in DOMAIN global_aggregate :
          global_aggregate[s].value # NULL =>
            /\ s \in DOMAIN global_aggregate'
            /\ global_aggregate'[s].value # NULL]_vars
  /\ [][PreBuild =>
          \A s \in DOMAIN global_aggregate' :
            global_aggregate'[s].value = NULL =>
              /\ s \in DOMAIN global_aggregate
              /\ global_aggregate[s].value = NULL]_vars
  /\ [](\A i \in 1..Len(globalAggregates) : globalAggregates[i].value # NULL)
  /\ [](\A s \in DOMAIN global_aggregate :
          global_aggregate[s].value # NULL => NumericRows # {})

\* prepare ran again over a record that a pre-build pass had given a value,
\* and the value is still there
C9_Witness ==
  /\ script = "prepare"
  /\ EXAMPLE_AVG_METRIC \in DOMAIN global_aggregate
  /\ global_aggregate[EXAMPLE_AVG_METRIC].value # NULL
  /\ IsRoundedMean(global_aggregate[EXAMPLE_AVG_METRIC].value.value, NumericRows)

\* C10: right after a pre-build pass that ended without error, every stored
\* contributor aggregate and the stored global aggregate (when it has a
\* value) equal what the activity store gives at that pass.
C10_StoredAggregatesAreRecomputed ==
  (script = "pre-build" /\ outcome = "ok") =>
    /\ \A k \in DOMAIN contributor_aggregate :
         /\ MetricsOf(k[2]) # {}
         /\ IsRoundedMean(contributor_aggregate[k].value, MetricsOf(k[2]))
    /\ \A s \in DOMAIN global_aggregate :
         global_aggregate[s].value # NULL =>
           IsRoundedMean(global_aggregate[s].value.value, NumericRows)

\* C11: importing the files of an export into a store that is empty but for
\* the prepared definitions gives the activity records and the badge-award
\* records of the exported store, field for field, and the run succeeds.
C11_ExportImportRoundTrip ==
  [][(/\ ImportRun(MemoryPath, DataPath)
      /\ contributor = EmptyTable /\ activity = EmptyTable
      /\ contributor_badge = EmptyTable
      /\ EXAMPLE_ACTIVITY \in DOMAIN activity_definition)
       => /\ outcome' = "ok"
          /\ activity' = exported.activity
          /\ contributor_badge' = exported.contributor_badge]_vars

\* C12: a chunked upsert (addActivities, upsertContributorBadges,
\* addContributors, upsertContributorAggregates) of a collection leaves the
\* stored state and the success or failure that one statement over the whole
\* collection would leave, also for a collection longer than a chunk and for
\* one in which a key occurs twice.
C12_ChunkedUpsertIsOneUpsert ==
  [][(script = "import" /\ script' # "import") =>
       \A collection \in {args'} :
         \A single \in
              {IF script' = "addContributors"
               THEN InsertContributors(contributor, Dedup(collection))
               ELSE IF script' = "addActivities"
               THEN InsertActivities(activity, collection, DOMAIN contributor,
                                     DOMAIN activity_definition)
               ELSE IF script' = "upsertContributorAggregates"
               THEN InsertContributorAggregates(contributor_aggregate, collection)
               ELSE IF script' = "upsertContributorBadges"
               THEN InsertContributorBadges(contributor_badge, collection,
                                            DOMAIN contributor, DOMAIN badge_definition)
               ELSE NoStatement(EmptyTable)} :
           LET written ==
                 IF script' = "addContributors" THEN contributor'
                 ELSE IF script' = "addActivities" THEN activity'
                 ELSE IF script' = "upsertContributorAggregates"
                 THEN contributor_aggregate'
                 ELSE contributor_badge'
           IN script' \in {"addContributors", "addActivities",
                           "upsertContributorAggregates", "upsertContributorBadges"}
                => /\ written = single.table
                   /\ (outcome' = "error") <=> single.error]_vars

\* C13: when addActivities is handed a record whose slug is stored, the slug
\* keeps one record and its title, occured_at, link, text, points and meta
\* become those of the record handed in.
C13_ReingestOverwritesFields ==
  [][(script' = "addActivities" /\ outcome' = "ok" /\ Len(args') = 1) =>
       \A a \in {args'[1]} :
         a.slug \in DOMAIN activity =>
           /\ a.slug \in DOMAIN activity'
           /\ activity'[a.slug].title = a.title
           /\ activity'[a.slug].occured_at = a.occured_at
           /\ activity'[a.slug].link = a.link
           /\ activity'[a.slug].text = a.text
           /\ activity'[a.slug].points = a.points
           /\ activity'[a.slug].meta = a.meta]_vars

\* C16: addContributors has set semantics: whatever the list, with repeats
\* and with usernames that are stored, the call raises no error, every
\* username of the list is stored once afterwards, the rows that were stored
\* are unchanged, and the new rows carry the gravatar address.
C16_AddContributorsIsSetUnion ==
  [][script' = "addContributors" =>
       \A list \in {args'} :
         /\ outcome' = "ok"
         /\ DOMAIN contributor' = DOMAIN contributor \cup Range(list)
         /\ \A c \in DOMAIN contributor : contributor'[c] = contributor[c]
         /\ \A c \in Range(list) \ DOMAIN contributor :
              contributor'[c] = avatar_url(c)
         /\ affectedRows' = Cardinality(Range(list) \ DOMAIN contributor)]_vars

\* a list of three with a repeat, one of its two usernames stored before
C16_Witness ==
  /\ script = "addContributors"
  /\ outcome = "ok"
  /\ Len(args) = 3
  /\ Cardinality(Range(args)) = 2
  /\ affectedRows = 1
  /\ Range(args) \subseteq DOMAIN contributor

\* C14: upsertBadgeDefinition on a slug that is stored leaves one definition
\* under the slug, with the name, description and variants of this call; the
\* upsert of an award whose slug is stored changes nothing.
C14_DefinitionsUpdateAwardsDoNot ==
  /\ [][\A d \in BadgeDefinitionVersions :
          (d.slug \in DOMAIN badge_definition /\ UpsertBadgeDefinition(d)) =>
            /\ DOMAIN badge_definition' = DOMAIN badge_definition
            /\ badge_definition'[d.slug] =
                 [name |-> d.name, description |-> d.description,
                  variants |-> d.variants]]_vars
  /\ [][\A b \in AwardVersions :
          (b.slug \in DOMAIN contributor_badge /\ UpsertContributorBadges(<<b>>)) =>
            /\ contributor_badge' = contributor_badge
            /\ outcome' = "ok"
            /\ affectedRows' = 0]_vars

\* a second version of the definition is stored, and the award upserted last
\* differs from the stored award, which is the first version
C14_Witness ==
  /\ script = "upsertContributorBadges"
  /\ outcome = "ok"
  /\ affectedRows = 0
  /\ Len(args) = 1
  /\ args[1].slug \in DOMAIN contributor_badge
  /\ contributor_badge[args[1].slug].meta # args[1].meta
  /\ contributor_badge[args[1].slug].achieved_on # Day(args[1].achieved_on)
  /\ ENGAGEMENT_CHAMPION \in DOMAIN badge_definition
  /\ badge_definition[ENGAGEMENT_CHAMPION].description = "Awarded for taking part"

\* C15: after a run of upsertActivityDefinitions, whatever calls and edits by
\* hand came before, activity_definition holds one record, example_activity,
\* with the values Example Activity, Example Activity, 0 and message-circle.
C15_DefinitionsAreRestored ==
  script = "prepare" =>
    activity_definition =
      [d \in {EXAMPLE_ACTIVITY} |->
         [name |-> "Example Activity", description |-> "Example Activity",
          points |-> 0, icon |-> "message-circle"]]

\* the run came after an edit by hand of the stored definition
C15_Witness ==
  /\ script = "prepare"
  /\ args = <<EXAMPLE_ACTIVITY>>
  /\ activity_definition[EXAMPLE_ACTIVITY].name = "Example Activity"

\* C17: with LEADERBOARD_DATA_PATH not set, the export script and the import
\* script fail with 'LEADERBOARD_DATA_PATH environment variable is not set'
\* and have done nothing before: no store handle created, no query, no
\* directory made, no file read or written.
C17_NoDataPathNoSideEffect ==
  [][\A db \in DbPathSettings :
       (Export(db, Unset) \/ ImportRun(db, Unset)) =>
         /\ outcome' = LEADERBOARD_DATA_PATH_ERROR
         /\ effects' = {}
         /\ handles' = handles
         /\ dbInstance' = dbInstance
         /\ tree' = tree
         /\ tables' = tables]_vars

\* C18: with PGLITE_DB_PATH not set, each of prepare, scrape, pre-build,
\* export and import ends in an error, whatever the data tree holds, and has
\* read no data file and issued no store operation before.
C18_NoDbPathFailsFirst ==
  [][\A data \in DataPathSettings :
       (\/ PrepareRun(Unset)
        \/ ScrapeRun(Unset, "a", 9)
        \/ PreBuildRun(Unset)
        \/ Export(Unset, data)
        \/ ImportRun(Unset, data)) =>
         /\ outcome' \in {PGLITE_DB_PATH_ERROR, LEADERBOARD_DATA_PATH_ERROR}
         /\ effects' \cap {"readFile", "query"} = {}
         /\ tables' = tables]_vars

\* C20: in an import into a store that holds the definitions, a kind whose
\* directory is missing or holds no .json file is skipped, nothing being
\* written for it; the records of the other kind are stored; and the run
\* ends without an error.
C20_MissingDirectoryIsSkipped ==
  [][(/\ ImportRun(MemoryPath, DataPath)
      /\ EXAMPLE_ACTIVITY \in DOMAIN activity_definition
      /\ ENGAGEMENT_CHAMPION \in DOMAIN badge_definition
      /\ FilesOf(tree.activities) = << >> \/ FilesOf(tree.badges) = << >>) =>
       /\ outcome' = "ok"
       /\ FilesOf(tree.activities) = << >> =>
            /\ activity' = activity
            /\ contributor' = contributor
       /\ FilesOf(tree.badges) = << >> => contributor_badge' = contributor_badge
       /\ \A a \in Range(FilesOf(tree.activities)) : a.slug \in DOMAIN activity'
       /\ \A b \in Range(FilesOf(tree.badges)) : b.slug \in DOMAIN contributor_badge']_vars

\* C19: from the getDb call that created the handle until resetDbInstance,
\* every getDb call that succeeds returns that handle and creates none,
\* whatever PGLITE_DB_PATH is set to by then; resetDbInstance drops the
\* handle, and the next getDb call that succeeds creates a new one.
C19_HandleIsSingleton ==
  /\ [][\A path \in DbPaths :
          (dbInstance # NoHandle /\ GetDb(path)) =>
            /\ returned' = dbInstance
            /\ dbInstance' = dbInstance
            /\ handles' = handles]_vars
  /\ [][\A path \in DbPaths :
          (dbInstance = NoHandle /\ GetDb(path)) =>
            /\ handles' = Append(handles, path)
            /\ returned' = Len(handles')
            /\ dbInstance' = returned'
            /\ returned' \notin 1..Len(handles)]_vars
  /\ [][ResetDbInstance => dbInstance' = NoHandle /\ handles' = handles]_vars

\* the second handle, made after a reset under another path, has been returned
C19_Witness ==
  /\ script = "getDb"
  /\ outcome = "ok"
  /\ handles = <<MemoryPath, "./db">>
  /\ dbInstance = 2
  /\ returned = 2

\* C21: the scrape script calls getActivities with since = now minus one day
\* when SCRAPE_DAYS is absent, and with since = now minus N days when
\* SCRAPE_DAYS is N.
C21_LookbackDefaultsToOneDay ==
  [][\A c \in Contributors, n \in BadgeScrapeSizes :
       /\ ScrapeMain(Unset, c, n) => args' = <<toISOString(now - TicksPerDay)>>
       /\ \A d \in {"1", "2"} :
            ScrapeMain(d, c, n) =>
              args' = <<toISOString(now - ScrapeDaysTexts[d] * TicksPerDay)>>]_vars

\* C22: in calculateAndUpsertExampleMetric an activity whose example_metric
\* is present and not numeric is skipped: the pass does not fail, and the
\* aggregates of the other records are computed and written (the global mean
\* and each contributor's mean are taken over the numeric values only).
C22_MalformedMetricIsSkipped ==
  (script = "pre-build" /\ CastFails) =>
    /\ outcome = "ok"
    /\ NumericRows # {} =>
         /\ EXAMPLE_AVG_METRIC \in DOMAIN global_aggregate
         /\ global_aggregate[EXAMPLE_AVG_METRIC].value # NULL
         /\ IsRoundedMean(global_aggregate[EXAMPLE_AVG_METRIC].value.value, NumericRows)
    /\ \A c \in Contributors :
         MetricsOf(c) # {} =>
           /\ <<EXAMPLE_AVG_METRIC, c>> \in DOMAIN contributor_aggregate
           /\ IsRoundedMean(contributor_aggregate[<<EXAMPLE_AVG_METRIC, c>>].value, MetricsOf(c))

\* C23: in the import script a record whose date field (occured_at of an
\* activity, achieved_on of a badge) cannot be parsed is skipped: the run
\* does not raise, and every other record of the import is persisted. The
\* store holds the definitions and the contributors of the badges, so that
\* nothing else of the import can fail.
C23_UnparsableDateIsSkipped ==
  [][\A a \in DatedActivityFiles \cup {<< >>}, b \in DatedBadgeFiles \cup {<< >>} :
       (/\ Import(a, b)
        /\ EXAMPLE_ACTIVITY \in DOMAIN activity_definition
        /\ ENGAGEMENT_CHAMPION \in DOMAIN badge_definition
        /\ \A i \in 1..Len(b) :
             b[i].contributor \in DOMAIN contributor \cup {a[j].contributor : j \in 1..Len(a)}
        /\ \/ \E i \in 1..Len(a) : a[i].occured_at = Unparsable
           \/ \E i \in 1..Len(b) : b[i].achieved_on = Unparsable)
       => /\ outcome' = "ok"
          /\ \A i \in 1..Len(a) :
               a[i].occured_at # Unparsable =>
                 /\ a[i].slug \in DOMAIN activity'
                 /\ activity'[a[i].slug].contributor = a[i].contributor
          /\ \A i \in 1..Len(b) :
               b[i].achieved_on # Unparsable => b[i].slug \in DOMAIN contributor_badge']_vars

\* C24: after an export over an initially empty data tree the activities
\* directory exists and holds exactly one file <contributor>.json for each
\* contributor with at least one activity of a managed definition, the file
\* holding exactly the activities of that contributor; over an empty activity
\* store the directory exists and holds no file.
C24_OneFilePerContributor ==
  (script = "export" /\ outcome = "ok") =>
    LET managed == {s \in DOMAIN activity :
                      activity[s].activity_definition = EXAMPLE_ACTIVITY}
        dir == tree.activities
    IN /\ dir.exists
       /\ DOMAIN dir.files = {activity[s].contributor : s \in managed}
       /\ \A c \in DOMAIN dir.files :
            /\ Range(dir.files[c]) =
                 {ExportedActivity(s) : s \in {x \in managed : activity[x].contributor = c}}
            /\ Len(dir.files[c]) = Cardinality(Range(dir.files[c]))
       /\ managed = {} => DOMAIN dir.files = {}

C24_Witness ==
  /\ script = "export"
  /\ outcome = "ok"
  /\ DOMAIN tree.activities.files = Contributors
  /\ \E c \in Contributors : Len(tree.activities.files[c]) = 1

\* C25: within one chunked upsert call the batches are issued one after the
\* other; when batch k fails, batches 1..k-1 stay written, batches k+1.. are
\* not issued, there is no retry and the call rejects. The collections are
\* of at most two batches: the store after the call is the store after the
\* first statement when that one fails or the second one fails, and the
\* second statement is issued on the store the first one left.
C25_BatchesInSequenceNoRollback ==
  [][(script = "import" /\ script' \in {"addContributors", "addActivities",
                                        "upsertContributorAggregates",
                                        "upsertContributorBadges"}) =>
       \A chunks \in {batchArray(IF script' = "addContributors" THEN Dedup(args') ELSE args',
                                 ChunkSize)} :
         LET stored == IF script' = "addContributors" THEN contributor
                       ELSE IF script' = "addActivities" THEN activity
                       ELSE IF script' = "upsertContributorAggregates"
                       THEN contributor_aggregate
                       ELSE contributor_badge
             written == IF script' = "addContributors" THEN contributor'
                        ELSE IF script' = "addActivities" THEN activity'
                        ELSE IF script' = "upsertContributorAggregates"
                        THEN contributor_aggregate'
                        ELSE contributor_badge'
             Statement(table, chunk) ==
               IF script' = "addContributors" THEN InsertContributors(table, chunk)
               ELSE IF script' = "addActivities"
               THEN InsertActivities(table, chunk, DOMAIN contributor,
                                     DOMAIN activity_definition)
               ELSE IF script' = "upsertContributorAggregates"
               THEN InsertContributorAggregates(table, chunk)
               ELSE InsertContributorBadges(table, chunk, DOMAIN contributor,
                                            DOMAIN badge_definition)
         IN /\ Len(chunks) <= 2
            /\ \A first \in {IF Len(chunks) = 0 THEN NoStatement(stored)
                             ELSE Statement(stored, chunks[1])} :
                 \A second \in {IF Len(chunks) < 2 \/ first.error THEN first
                                ELSE Statement(first.table, chunks[2])} :
                   /\ (outcome' = "error") <=> (first.error \/ second.error)
                   /\ first.error => written = stored
                   /\ (~first.error /\ second.error) => written = first.table
                   /\ ~second.error => written = second.table]_vars

C25_Witness ==
  /\ script = "addActivities"
  /\ outcome = "error"
  /\ Len(args) > ChunkSize
  /\ Cardinality(DOMAIN activity) >= ChunkSize

\* C26: the scrape script and the import script add the contributors of
\* their activities before the activities. In every state the contributor of
\* each stored activity is stored; a run over a store that holds the
\* definitions writes its activities, whether their contributors were stored
\* or not; when addContributors fails (no PGLITE_DB_PATH) the run writes no
\* activity.
C26_ContributorsBeforeActivities ==
  [][/\ \A s \in DOMAIN activity' : activity'[s].contributor \in DOMAIN contributor'
     /\ \A c \in Contributors : scraped'[c].count > 0 => c \in DOMAIN contributor'
     /\ \A data \in DataPathSettings :
          LET files == FilesOf(tree.activities)
          IN /\ (/\ ImportRun(MemoryPath, data)
                 /\ data # Unset
                 /\ Len(files) > 0
                 /\ EXAMPLE_ACTIVITY \in DOMAIN activity_definition)
                => \A i \in 1..Len(files) :
                     /\ files[i].contributor \in DOMAIN contributor'
                     /\ files[i].slug \in DOMAIN activity'
                     /\ activity'[files[i].slug].contributor = files[i].contributor
             /\ (ImportRun(Unset, data) /\ Len(files) > 0)
                => /\ outcome' # "ok"
                   /\ activity' = activity
                   /\ contributor' = contributor
     /\ (ScrapeRun(MemoryPath, "a", 9) /\ EXAMPLE_ACTIVITY \in DOMAIN activity_definition)
          => /\ "a" \in DOMAIN contributor'
             /\ scraped'["a"].count = scraped["a"].count + 9
     /\ ScrapeRun(Unset, "a", 9)
          => /\ outcome' # "ok"
             /\ scraped' = scraped
             /\ contributor' = contributor]_vars

C26_Witness ==
  /\ script = "import"
  /\ outcome = "ok"
  /\ "query" \in effects
  /\ \A c \in Contributors : scraped[c].count = 0
  /\ 1 \in DOMAIN activity
  /\ activity[1].contributor \in DOMAIN contributor

\* C27: after any sequence of activity ingestion (scrape or import, an
\* activity dated before all stored ones included) and pre-build runs, the
\* achieved_on of every engagement_champion award that pre-build stored is the
\* day of the current earliest occured_at of its contributor, so that all the
\* variants of a contributor carry the same achieved_on. Stated for the
\* states a successful pre-build run leaves.
C27_AwardDateIsEarliestActivity ==
  (script = "pre-build" /\ outcome = "ok") =>
    \A s \in DOMAIN contributor_badge :
      (/\ contributor_badge[s].badge = ENGAGEMENT_CHAMPION
       /\ contributor_badge[s].meta.awarded_by = "automated")
      => contributor_badge[s].achieved_on = Day(FirstActivityAt(contributor_badge[s].contributor))

\* C28: after any sequence of scrape, import and pre-build runs (an existing
\* slug ingested again under another contributor included), the contributor
\* of every engagement_champion award that pre-build stored currently has an
\* activity count that reaches the threshold of the award's variant. Stated
\* for the states a successful pre-build run leaves.
C28_AwardIsJustified ==
  (script = "pre-build" /\ outcome = "ok") =>
    \A s \in DOMAIN contributor_badge :
      (/\ contributor_badge[s].badge = ENGAGEMENT_CHAMPION
       /\ contributor_badge[s].meta.awarded_by = "automated")
      => CountOf(contributor_badge[s].contributor) >= contributor_badge[s].meta.threshold

C30_BadgeContributorsAreAdded ==
  [][/\ \A s \in DOMAIN contributor_badge' :
          contributor_badge'[s].contributor \in DOMAIN contributor'
     /\ LET activities == FilesOf(tree.activities)
            badges == FilesOf(tree.badges)
        IN (/\ ImportRun(MemoryPath, DataPath)
            /\ Len(badges) > 0
            /\ ENGAGEMENT_CHAMPION \in DOMAIN badge_definition
            /\ Len(activities) > 0 => EXAMPLE_ACTIVITY \in DOMAIN activity_definition)
           => /\ outcome' = "ok"
              /\ \A i \in 1..Len(badges) :
                   /\ badges[i].contributor \in DOMAIN contributor'
                   /\ badges[i].slug \in DOMAIN contributor_badge']_vars

====
